---- MODULE Spec2Model ----
(***************************************************************************)
(* Model of the document generation services.                              *)
(*                                                                         *)
(*   src/Flask_App/app.py : upload / webhook dispatch / download / history *)
(*   src/main.py          : styling of the template context                *)
(*                                                                         *)
(* Text is a sequence of one-character strings; a file body is a sequence  *)
(* of tokens.  Upload requests are handled concurrently (the development   *)
(* server is threaded) and interleave at their store operations and at the *)
(* webhook call.  Under Spec every sqlite operation succeeds.  The form's  *)
(* message is carried into the rows and the webhook call only and is left  *)
(* out.                                                                    *)
(***************************************************************************)
EXTENDS Integers, Sequences, FiniteSets, TLC

VARIABLES
    files,          \* table files: row id = position (AUTOINCREMENT, never deleted)
    chat_history,   \* table chat_history
    req,            \* the upload requests in flight, one record per request
    calls,          \* session id -> number of requests.post made for it
    dl,             \* response of the last /download/<file_id>
    view,           \* response of the last /view-chat/<session_id>
    data,           \* main.py: the DemandLetterData record of the request
    context,        \* main.py: the result of prepare_context_with_styling
    letter          \* main.py: the /generate-letter request and its answer

vars == <<files, chat_history, req, calls, dl, view, data, context, letter>>

flaskVars == <<files, chat_history, req, calls, dl, view>>
stylingVars == <<data, context, letter>>

----------------------------------------------------------------------------
(* Bounds *)

MaxReq == 2         \* upload requests received
MaxSet == 2         \* fields of a DemandLetterData given a non-default value

Requests == 1..MaxReq
UUIDs == 1..MaxReq  \* the values uuid.uuid4() can return

----------------------------------------------------------------------------
(* Text helpers *)

Str_csv == <<"c", "s", "v">>
Str_txt == <<"t", "x", "t">>
Str_docx == <<"d", "o", "c", "x">>

\* str.lower() on one character
LowerChar(c) ==
    CASE c = "C" -> "c"
      [] c = "S" -> "s"
      [] c = "V" -> "v"
      [] c = "T" -> "t"
      [] c = "X" -> "x"
      [] c = "D" -> "d"
      [] c = "F" -> "f"
      [] c = "P" -> "p"
      [] OTHER -> c

Lower(s) == [i \in 1..Len(s) |-> LowerChar(s[i])]

HasDot(s) == \E i \in 1..Len(s) : s[i] = "."

\* position of the last '.', 0 when there is none
LastDot(s) ==
    IF HasDot(s)
    THEN CHOOSE i \in 1..Len(s) :
            s[i] = "." /\ \A j \in (i+1)..Len(s) : s[j] # "."
    ELSE 0

\* filename.rsplit('.', 1)[1]
RSplitExt(s) == SubSeq(s, LastDot(s) + 1, Len(s))

allowed_file(filename, allowed_extensions) ==
    HasDot(filename) /\ Lower(RSplitExt(filename)) \in allowed_extensions

\* werkzeug secure_filename on names made of letters and dots:
\* leading and trailing dots are stripped
RECURSIVE StripLeft(_)
StripLeft(s) ==
    IF s # <<>> /\ Head(s) = "." THEN StripLeft(Tail(s)) ELSE s

RECURSIVE StripRight(_)
StripRight(s) ==
    IF s # <<>> /\ s[Len(s)] = "."
    THEN StripRight(SubSeq(s, 1, Len(s) - 1))
    ELSE s

secure_filename(s) == StripRight(StripLeft(s))

----------------------------------------------------------------------------
(* Inputs *)

\* a part of the multipart form: absent, or a filename and a body
NoUpload == [present |-> FALSE, filename |-> <<>>, content |-> <<>>]

Upl(filename, content) ==
    [present |-> TRUE, filename |-> filename, content |-> content]

\* the parts a client sends as csv_file or as txt_file
Uploads ==
    { NoUpload,
      Upl(<<>>, <<>>),
      Upl(<<"d", ".", "c", "s", "v">>, <<"a,b">>),
      Upl(<<"d", ".", "c", "s", "v">>, <<>>),
      Upl(<<".", "d", ".", "T", "X", "T">>, <<"Hello">>),
      Upl(<<"c", "s", "v">>, <<"a,b">>) }

DocxMime == "application/vnd.openxmlformats-officedocument.wordprocessingml.document"

\* what requests.post can produce: a response, or an exception (status 0)
WebhookResults ==
    { [status |-> 200, content_type |-> DocxMime, content |-> <<"B1">>],
      [status |-> 200, content_type |-> DocxMime, content |-> <<"B2">>],
      [status |-> 200, content_type |-> "text/plain", content |-> <<"ok">>],
      [status |-> 503, content_type |-> "text/plain", content |-> <<>>],
      [status |-> 0,   content_type |-> "",           content |-> <<>>] }

NoResult == [status |-> -1, content_type |-> "", content |-> <<>>]

NoHttp == [code |-> 0, kind |-> "none", download_file_id |-> 0,
           download_filename |-> <<>>, demo_mode |-> FALSE]

----------------------------------------------------------------------------
(* Store *)

FileRow(filename, file_content, file_type, session_id) ==
    [filename |-> filename, file_type |-> file_type,
     content |-> file_content, chat_session_id |-> session_id]

\* store_file_in_db without its conn.commit(): the row is lost at close
store_file_in_db_uncommitted(filename, file_content, file_type, session_id) ==
    files

\* store_file_in_db: the table after the INSERT; lastrowid is its length
store_file_in_db(filename, file_content, file_type, session_id) ==
    Append(files, FileRow(filename, file_content, file_type, session_id))

\* a "<name> (ID: <n>)" column, or the literal "Text response"
FileInfo(name, id) == [kind |-> "file", name |-> name, id |-> id]
TextInfo == [kind |-> "text", name |-> <<>>, id |-> 0]

\* store_chat_history that also rewrites the status of the rows before it
store_chat_history_rewrites(session_id, csv_info, txt_info, response_info, chat_messages) ==
    Append([i \in 1..Len(chat_history) |->
                [chat_history[i] EXCEPT !.status = "processing"]],
           [session_id |-> session_id, csv_file_info |-> csv_info,
            txt_file_info |-> txt_info, response_file_info |-> response_info,
            chat_messages |-> chat_messages, status |-> "completed"])

\* store_chat_history: the INSERT names no status, the column default applies
store_chat_history(session_id, csv_info, txt_info, response_info, chat_messages) ==
    Append(chat_history,
           [session_id |-> session_id, csv_file_info |-> csv_info,
            txt_file_info |-> txt_info, response_file_info |-> response_info,
            chat_messages |-> chat_messages, status |-> "completed"])

\* get_file_from_db: the row, or "no row"
HasFile(file_id) == file_id \in 1..Len(files)

\* f"response_{now:%Y%m%d_%H%M%S}.docx"; the timestamp is one token
ResponseFilename(prefix) == <<prefix, "TS", ".">> \o Str_docx

simulated_content(csv_name, txt_name) ==
    <<"Processed Response Document">> \o csv_name \o txt_name

UsedUUIDs == {req[r].session_id : r \in Requests} \ {0}

\* a session id that is not unique per request
uuid4_repeating == {1}

\* uuid.uuid4(): a value no earlier call returned (the least one: the
\* identifiers are opaque)
uuid4 ==
    {s \in UUIDs \ UsedUUIDs : \A t \in UUIDs \ UsedUUIDs : s <= t}

----------------------------------------------------------------------------
(* Initial state *)

IdleReq ==
    [pc |-> "idle", csv |-> NoUpload, txt |-> NoUpload, session_id |-> 0,
     csv_file_id |-> 0, txt_file_id |-> 0, result |-> NoResult,
     response_file_id |-> 0, response_filename |-> <<>>, http |-> NoHttp]

NoDownload == [file_id |-> 0, code |-> 0, body |-> <<>>,
               filename |-> <<>>, mimetype |-> ""]

NoView == [session_id |-> 0, code |-> 0, status |-> "none", file_ids |-> {}]

InitFlask ==
    /\ files = <<>>
    /\ chat_history = <<>>
    /\ req = [r \in Requests |-> IdleReq]
    /\ calls = [s \in UUIDs |-> 0]
    /\ dl = NoDownload
    /\ view = NoView

----------------------------------------------------------------------------
(* /upload *)

\* the validation at the head of upload_files: the error it returns, or "ok"
upload_validate(csv, txt) ==
    IF ~csv.present \/ ~txt.present THEN "files_required"
    ELSE IF csv.filename = <<>> \/ txt.filename = <<>> THEN "not_selected"
    ELSE IF ~allowed_file(csv.filename, {Str_csv}) THEN "csv_extension"
    ELSE IF ~allowed_file(txt.filename, {Str_txt}) THEN "txt_extension"
    ELSE "ok"

ErrorHttp(code, kind) ==
    [code |-> code, kind |-> kind, download_file_id |-> 0,
     download_filename |-> <<>>, demo_mode |-> FALSE]

\* the request arrives: validation, then the session id and the file reads
Upload(r, csv, txt) ==
    /\ req[r].pc = "idle"
    /\ \A q \in 1..(r-1) : req[q].pc # "idle"
    /\ IF upload_validate(csv, txt) # "ok"
       THEN req' = [req EXCEPT ![r].pc = "done",
                               ![r].http = ErrorHttp(400, upload_validate(csv, txt))]
       ELSE \E s \in uuid4 :
                req' = [req EXCEPT ![r].pc = "store_csv", ![r].csv = csv,
                                   ![r].txt = txt, ![r].session_id = s]
    /\ UNCHANGED <<files, chat_history, calls, dl, view, stylingVars>>

\* csv_file_id = store_file_in_db(secure_filename(csv_file.filename), ...)
StoreCsv(r) ==
    /\ req[r].pc = "store_csv"
    /\ files' = store_file_in_db(secure_filename(req[r].csv.filename),
                                 req[r].csv.content, "csv", req[r].session_id)
    /\ req' = [req EXCEPT ![r].pc = "store_txt", ![r].csv_file_id = Len(files')]
    /\ UNCHANGED <<chat_history, calls, dl, view, stylingVars>>

\* txt_file_id = store_file_in_db(secure_filename(txt_file.filename), ...)
StoreTxt(r) ==
    /\ req[r].pc = "store_txt"
    /\ files' = store_file_in_db(secure_filename(req[r].txt.filename),
                                 req[r].txt.content, "txt", req[r].session_id)
    /\ req' = [req EXCEPT ![r].pc = "post", ![r].txt_file_id = Len(files')]
    /\ UNCHANGED <<chat_history, calls, dl, view, stylingVars>>

\* where upload_files goes with the outcome of requests.post
AfterPost(result) ==
    IF result.status = 200
    THEN IF result.content_type = DocxMime THEN "store_docx" ELSE "store_text"
    ELSE "simulate"

\* response = requests.post(webhook_url, ..., timeout=30): the request blocks
\* until the call returns or raises
PostWebhook(r, result) ==
    /\ req[r].pc = "post"
    /\ calls' = [calls EXCEPT ![req[r].session_id] = @ + 1]
    /\ req' = [req EXCEPT ![r].pc = AfterPost(result), ![r].result = result]
    /\ UNCHANGED <<files, chat_history, dl, view, stylingVars>>

\* StoreDocx that takes the id from the table as it was before the INSERT
StoreDocx_stale_id(r) ==
    /\ req[r].pc = "store_docx"
    /\ files' = store_file_in_db(ResponseFilename("response_"),
                                 req[r].result.content, "docx", req[r].session_id)
    /\ req' = [req EXCEPT ![r].pc = "store_history",
                          ![r].response_filename = ResponseFilename("response_"),
                          ![r].response_file_id = Len(files)]
    /\ UNCHANGED <<chat_history, calls, dl, view, stylingVars>>

\* 200 with a Word document: the response file is stored
StoreDocx(r) ==
    /\ req[r].pc = "store_docx"
    /\ files' = store_file_in_db(ResponseFilename("response_"),
                                 req[r].result.content, "docx", req[r].session_id)
    /\ req' = [req EXCEPT ![r].pc = "store_history",
                          ![r].response_filename = ResponseFilename("response_"),
                          ![r].response_file_id = Len(files')]
    /\ UNCHANGED <<chat_history, calls, dl, view, stylingVars>>

SuccessHttp(kind, file_id, filename, demo) ==
    [code |-> 200, kind |-> kind, download_file_id |-> file_id,
     download_filename |-> filename, demo_mode |-> demo]

\* StoreHistory that names the csv row as the response file
StoreHistory_names_input(r) ==
    /\ req[r].pc = "store_history"
    /\ chat_history' =
          store_chat_history(req[r].session_id,
                             FileInfo(req[r].csv.filename, req[r].csv_file_id),
                             FileInfo(req[r].txt.filename, req[r].txt_file_id),
                             FileInfo(req[r].response_filename, req[r].csv_file_id),
                             <<"Files processed successfully">>)
    /\ req' = [req EXCEPT ![r].pc = "done",
                          ![r].http = SuccessHttp("processed", req[r].response_file_id,
                                                  req[r].response_filename, FALSE)]
    /\ UNCHANGED <<files, calls, dl, view, stylingVars>>

\* ... then the chat history row, then the JSON answer
StoreHistory(r) ==
    /\ req[r].pc = "store_history"
    /\ chat_history' =
          store_chat_history(req[r].session_id,
                             FileInfo(req[r].csv.filename, req[r].csv_file_id),
                             FileInfo(req[r].txt.filename, req[r].txt_file_id),
                             FileInfo(req[r].response_filename, req[r].response_file_id),
                             <<"Files processed successfully">>)
    /\ req' = [req EXCEPT ![r].pc = "done",
                          ![r].http = SuccessHttp("processed", req[r].response_file_id,
                                                  req[r].response_filename, FALSE)]
    /\ UNCHANGED <<files, calls, dl, view, stylingVars>>

\* 200 with anything else: only a chat history row, the text is its message
StoreText(r) ==
    /\ req[r].pc = "store_text"
    /\ chat_history' =
          store_chat_history(req[r].session_id,
                             FileInfo(req[r].csv.filename, req[r].csv_file_id),
                             FileInfo(req[r].txt.filename, req[r].txt_file_id),
                             TextInfo, req[r].result.content)
    /\ req' = [req EXCEPT ![r].pc = "done",
                          ![r].http = SuccessHttp("text", 0, <<>>, FALSE)]
    /\ UNCHANGED <<files, calls, dl, view, stylingVars>>

\* except Exception as webhook_error: a simulated response file is stored
Simulate(r) ==
    /\ req[r].pc = "simulate"
    /\ files' = store_file_in_db(ResponseFilename("processed_response_"),
                                 simulated_content(req[r].csv.filename,
                                                   req[r].txt.filename),
                                 "docx", req[r].session_id)
    /\ req' = [req EXCEPT ![r].pc = "simulate_history",
                          ![r].response_filename =
                                ResponseFilename("processed_response_"),
                          ![r].response_file_id = Len(files')]
    /\ UNCHANGED <<chat_history, calls, dl, view, stylingVars>>

\* ... then its chat history row, then the "Demo Mode" answer
SimulateHistory(r) ==
    /\ req[r].pc = "simulate_history"
    /\ chat_history' =
          store_chat_history(req[r].session_id,
                             FileInfo(req[r].csv.filename, req[r].csv_file_id),
                             FileInfo(req[r].txt.filename, req[r].txt_file_id),
                             FileInfo(req[r].response_filename, req[r].response_file_id),
                             <<"Files processed successfully (simulated)">>)
    /\ req' = [req EXCEPT ![r].pc = "done",
                          ![r].http = SuccessHttp("demo", req[r].response_file_id,
                                                  req[r].response_filename, TRUE)]
    /\ UNCHANGED <<files, calls, dl, view, stylingVars>>

----------------------------------------------------------------------------
(* /download/<file_id> and /view-chat/<session_id> *)

Mimetype(file_type) ==
    CASE file_type = "docx" -> DocxMime
      [] file_type = "csv" -> "text/csv"
      [] file_type = "txt" -> "text/plain"
      [] OTHER -> "application/octet-stream"

\* download_response that reads the row before the one asked for
download_response_off_by_one(file_id) ==
    IF ~HasFile(file_id - 1)
    THEN [file_id |-> 0, code |-> 404, body |-> <<"File not found">>,
          filename |-> <<>>, mimetype |-> ""]
    ELSE [file_id |-> file_id, code |-> 200, body |-> files[file_id - 1].content,
          filename |-> files[file_id - 1].filename,
          mimetype |-> Mimetype(files[file_id - 1].file_type)]

\* the answer of download_file
download_response(file_id) ==
    IF ~HasFile(file_id)
    THEN [file_id |-> 0, code |-> 404, body |-> <<"File not found">>,
          filename |-> <<>>, mimetype |-> ""]
    ELSE [file_id |-> file_id, code |-> 200, body |-> files[file_id].content,
          filename |-> files[file_id].filename,
          mimetype |-> Mimetype(files[file_id].file_type)]

download_file(file_id) ==
    /\ dl' = download_response(file_id)
    /\ UNCHANGED <<files, chat_history, req, calls, view, stylingVars>>

\* SELECT * FROM chat_history WHERE session_id = ? ... fetchone()
ChatRows(session_id) ==
    {i \in 1..Len(chat_history) : chat_history[i].session_id = session_id}

FirstChatRow(session_id) ==
    CHOOSE i \in ChatRows(session_id) : \A j \in ChatRows(session_id) : i <= j

SessionFiles(session_id) ==
    {i \in 1..Len(files) : files[i].chat_session_id = session_id}

view_response(session_id) ==
    IF ChatRows(session_id) = {}
    THEN [session_id |-> session_id, code |-> 404, status |-> "none",
          file_ids |-> {}]
    ELSE [session_id |-> session_id, code |-> 200,
          status |-> chat_history[FirstChatRow(session_id)].status,
          file_ids |-> SessionFiles(session_id)]

view_chat_details(session_id) ==
    /\ view' = view_response(session_id)
    /\ UNCHANGED <<files, chat_history, req, calls, dl, stylingVars>>

----------------------------------------------------------------------------

FileIds == 0..(3 * MaxReq + 1)

NextFlask ==
    \/ \E r \in Requests, csv \in Uploads, txt \in Uploads : Upload(r, csv, txt)
    \/ \E r \in Requests : StoreCsv(r)
    \/ \E r \in Requests : StoreTxt(r)
    \/ \E r \in Requests, result \in WebhookResults : PostWebhook(r, result)
    \/ \E r \in Requests : StoreDocx(r)
    \/ \E r \in Requests : StoreHistory(r)
    \/ \E r \in Requests : StoreText(r)
    \/ \E r \in Requests : Simulate(r)
    \/ \E r \in Requests : SimulateHistory(r)
    \/ \E file_id \in FileIds : download_file(file_id)
    \/ \E session_id \in UUIDs : view_chat_details(session_id)

----------------------------------------------------------------------------
(* /upload when a store operation raises (sqlite3.Error): its row is not    *)
(* written                                                                 *)

\* inside the inner try (the response file, either history INSERT): the
\* exception is caught by "except Exception as webhook_error"
StoreRaisesInTry(r) ==
    /\ req[r].pc \in {"store_docx", "store_history", "store_text"}
    /\ req' = [req EXCEPT ![r].pc = "simulate"]
    /\ UNCHANGED <<files, chat_history, calls, dl, view, stylingVars>>

\* before the inner try or inside its handler: the outer except answers 500
StoreRaises(r) ==
    /\ req[r].pc \in {"store_csv", "store_txt", "simulate", "simulate_history"}
    /\ req' = [req EXCEPT ![r].pc = "done", ![r].http = ErrorHttp(500, "error")]
    /\ UNCHANGED <<files, chat_history, calls, dl, view, stylingVars>>

\* the upload requests alone: the read-only endpoints write no row
NextStoreFail ==
    \/ \E r \in Requests, csv \in Uploads, txt \in Uploads : Upload(r, csv, txt)
    \/ \E r \in Requests : StoreCsv(r)
    \/ \E r \in Requests : StoreTxt(r)
    \/ \E r \in Requests, result \in WebhookResults : PostWebhook(r, result)
    \/ \E r \in Requests : StoreDocx(r)
    \/ \E r \in Requests : StoreHistory(r)
    \/ \E r \in Requests : StoreText(r)
    \/ \E r \in Requests : Simulate(r)
    \/ \E r \in Requests : SimulateHistory(r)
    \/ \E r \in Requests : StoreRaisesInTry(r)
    \/ \E r \in Requests : StoreRaises(r)

----------------------------------------------------------------------------
(* main.py: DemandLetterData and prepare_context_with_styling *)

\* the fields of DemandLetterData, in declaration order
Fields ==
    << "date", "defendant", "street_address", "state_address",
       "plaintiff_full_name", "pronoun", "clauses", "mr_ms_last_name",
       "start_date", "job_title", "hourly_wage_annual_salary", "end_date",
       "paragraphs_concerning_wrongful_termination",
       "paragraphs_concerning_labor_code_violations", "delete_a_or_b",
       "damages_formatted", "conclusion", "company_name", "client_name" >>

FieldSet == {Fields[i] : i \in 1..Len(Fields)}

bold_fields ==
    { "defendant", "street_address", "state_address", "plaintiff_full_name",
      "pronoun", "mr_ms_last_name", "start_date", "job_title",
      "hourly_wage_annual_salary", "end_date", "company_name",
      "client_name", "damages_formatted" }

bold_underlined_fields == { "date" }

no_style_fields ==
    { "conclusion", "paragraphs_concerning_labor_code_violations",
      "paragraphs_concerning_wrongful_termination", "clauses" }

\* the values a client gives a field; every field defaults to ""
Texts == { <<>>, <<" ">>, <<" ", " ">>, <<"a">>, <<" ", "a">> }

DefaultSize == 24
DefaultFont == "Times New Roman"

\* str.strip() over blanks
RECURSIVE StripBlanksLeft(_)
StripBlanksLeft(s) ==
    IF s # <<>> /\ Head(s) = " " THEN StripBlanksLeft(Tail(s)) ELSE s

RECURSIVE StripBlanksRight(_)
StripBlanksRight(s) ==
    IF s # <<>> /\ s[Len(s)] = " "
    THEN StripBlanksRight(SubSeq(s, 1, Len(s) - 1))
    ELSE s

Strip(s) == StripBlanksRight(StripBlanksLeft(s))

\* a context value: a plain str, or a RichText with its runs
PlainValue(text) == [rich |-> FALSE, text |-> text, runs |-> <<>>]
RichText(runs) == [rich |-> TRUE, text |-> <<>>, runs |-> runs]

Run(text, bold, underline, italic, size, font) ==
    [text |-> text, bold |-> bold, underline |-> underline,
     italic |-> italic, size |-> size, font |-> font]

\* create_rich_text_field that tests only "not text"
create_rich_text_field_no_strip(text, bold, underline) ==
    IF text = <<>>
    THEN RichText(<<>>)
    ELSE RichText(<<Run(text, bold, underline, FALSE, DefaultSize, DefaultFont)>>)

\* RichText("") adds no run; otherwise one run with the formatting
create_rich_text_field(text, bold, underline) ==
    IF text = <<>> \/ Strip(text) = <<>>
    THEN RichText(<<>>)
    ELSE RichText(<<Run(text, bold, underline, FALSE, DefaultSize, DefaultFont)>>)

\* styled_value that strips the plain fields
styled_value_stripped(field, value) ==
    IF field \in bold_fields THEN create_rich_text_field(value, TRUE, FALSE)
    ELSE IF field \in bold_underlined_fields
         THEN create_rich_text_field(value, TRUE, TRUE)
    ELSE PlainValue(Strip(value))

\* the value the loop of prepare_context_with_styling gives one field
styled_value(field, value) ==
    IF field \in bold_fields THEN create_rich_text_field(value, TRUE, FALSE)
    ELSE IF field \in bold_underlined_fields
         THEN create_rich_text_field(value, TRUE, TRUE)
    ELSE PlainValue(value)

\* context[field] = ... : the dict with one key set
SetKey(ctx, key, value) ==
    [k \in DOMAIN ctx \cup {key} |-> IF k = key THEN value ELSE ctx[k]]

EmptyDict == [k \in {} |-> PlainValue(<<>>)]

\* for field, value in data_dict.items(): ...
RECURSIVE StyleLoop(_, _, _)
StyleLoop(ctx, d, i) ==
    IF i > Len(Fields) THEN ctx
    ELSE StyleLoop(SetKey(ctx, Fields[i], styled_value(Fields[i], d[Fields[i]])),
                   d, i + 1)

\* if 'delete_a_or_b' in context: context['delete_a_or_b'] = str(...)
FixDeleteAOrB(ctx, d) ==
    IF "delete_a_or_b" \in DOMAIN ctx
    THEN SetKey(ctx, "delete_a_or_b", PlainValue(d["delete_a_or_b"]))
    ELSE ctx

prepare_context_with_styling(d) == FixDeleteAOrB(StyleLoop(EmptyDict, d, 1), d)

DefaultData == [f \in FieldSet |-> <<>>]

NumSet == Cardinality({f \in FieldSet : data[f] # <<>>})

NoLetterResponse == [code |-> 0, kind |-> "none", document |-> FALSE]

NoTemplate == [exists |-> FALSE, undefined |-> {}]

InitStyling ==
    /\ data = DefaultData
    /\ context = [prepared |-> FALSE, value |-> EmptyDict]
    /\ letter = [done |-> FALSE, template |-> NoTemplate, strict |-> FALSE,
                 response |-> NoLetterResponse]

\* the client fills in one more field of the JSON body
SetField(f, v) ==
    /\ ~context.prepared
    /\ data[f] = <<>>
    /\ v # <<>>
    /\ NumSet < MaxSet
    /\ ~letter.done
    /\ data' = [data EXCEPT ![f] = v]
    /\ UNCHANGED <<context, letter, flaskVars>>

\* context = prepare_context_with_styling(data)
Prepare ==
    /\ ~context.prepared
    /\ context' = [prepared |-> TRUE, value |-> prepare_context_with_styling(data)]
    /\ UNCHANGED <<data, letter, flaskVars>>

NextStyling ==
    \/ \E f \in FieldSet, v \in Texts : SetField(f, v)
    \/ Prepare

----------------------------------------------------------------------------
(* main.py: /generate-letter *)

\* needle in text
Contains(text, needle) ==
    \E i \in 0..(Len(text) - Len(needle)) :
        SubSeq(text, i + 1, i + Len(needle)) = needle

Str_template_docx ==
    << "t", "e", "m", "p", "l", "a", "t", "e", ".", "d", "o", "c", "x" >>

Str_render ==
    << "r", "e", "n", "d", "e", "r" >>

\* the detail of the HTTPException raised when template.docx is absent
TemplateMissingDetail ==
    << "T", "e", "m", "p", "l", "a", "t", "e", " ", "f", "i", "l", "e",
       " ", "'", "t", "e", "m", "p", "l", "a", "t", "e", ".", "d", "o",
       "c", "x", "'", " ", "n", "o", "t", " ", "f", "o", "u", "n", "d",
       ".", " ", "P", "l", "e", "a", "s", "e", " ", "e", "n", "s", "u",
       "r", "e", " ", "i", "t", " ", "e", "x", "i", "s", "t", "s", " ",
       "i", "n", " ", "t", "h", "e", " ", "p", "r", "o", "j", "e", "c",
       "t", " ", "r", "o", "o", "t", "." >>

\* str() of that HTTPException: "<status_code>: <detail>", or empty where
\* the exception class defines no text
HTTPExceptionTexts ==
    { <<"5", "0", "0", ":", " ">> \o TemplateMissingDetail, <<>> }

\* str() of the UndefinedError of a strict environment
UndefinedErrorText(name) ==
    <<"'">> \o name \o
    << "'", " ", "i", "s", " ", "u", "n", "d", "e", "f", "i", "n", "e",
       "d" >>

\* the names a template.docx can use that the schema does not define
UndefinedNames ==
    { <<"c", "a", "s", "e">>,
      <<"r", "e", "n", "d", "e", "r", "e", "d">> }

\* template.docx: absent, or present with the placeholders it uses beyond
\* the schema's fields (every schema field is always a key of the context)
Templates ==
    {NoTemplate} \cup
    { [exists |-> TRUE, undefined |-> u] : u \in {{}} \cup {{n} : n \in UndefinedNames} }

LetterResponse(code, kind, document) ==
    [code |-> code, kind |-> kind, document |-> document]

\* the except branch of generate_letter: the status chosen from str(e)
error_response(text) ==
    IF Contains(Lower(text), Str_template_docx)
    THEN LetterResponse(500, "template_file_error", FALSE)
    ELSE IF Contains(Lower(text), Str_render)
    THEN LetterResponse(400, "template_rendering_error", FALSE)
    ELSE LetterResponse(500, "failed_to_generate", FALSE)

\* doc.render(context): with the strict environment in force an undefined
\* placeholder raises UndefinedError, otherwise it renders as blank
render_response(template, strict) ==
    IF template.undefined # {} /\ strict
    THEN error_response(UndefinedErrorText(CHOOSE n \in template.undefined : TRUE))
    ELSE LetterResponse(200, "document", TRUE)

\* generate_letter.  doc.env is assigned a strict Environment but is not
\* passed to doc.render: whether the library consults it is the input strict
generate_letter(template, strict, exception_text) ==
    /\ ~letter.done
    /\ ~context.prepared
    /\ IF ~template.exists
       THEN /\ letter' = [done |-> TRUE, template |-> template, strict |-> strict,
                          response |-> error_response(exception_text)]
            /\ UNCHANGED context
       ELSE /\ letter' = [done |-> TRUE, template |-> template, strict |-> strict,
                          response |-> render_response(template, strict)]
            /\ context' = [prepared |-> TRUE,
                           value |-> prepare_context_with_styling(data)]
    /\ UNCHANGED <<data, flaskVars>>

NextLetter ==
    \/ \E f \in FieldSet, v \in Texts : SetField(f, v)
    \/ \E template \in Templates, strict \in BOOLEAN,
          exception_text \in HTTPExceptionTexts :
            generate_letter(template, strict, exception_text)

----------------------------------------------------------------------------

Init == InitFlask /\ InitStyling

Next == NextFlask

Spec == Init /\ [][Next]_vars

SpecStyling == Init /\ [][NextStyling]_vars

SpecLetter == Init /\ [][NextLetter]_vars

SpecStoreFail == Init /\ [][NextStoreFail]_vars

----------------------------------------------------------------------------
(* Observations used by the properties *)

\* the persisted status of a submission: its chat_history row's, if any
Status(session_id) ==
    IF ChatRows(session_id) = {} THEN "none"
    ELSE chat_history[FirstChatRow(session_id)].status

\* the response files (artifacts) stored for a submission
DocxRows(session_id) ==
    {i \in SessionFiles(session_id) : files[i].file_type = "docx"}

Accepted(r) == req[r].session_id # 0
Resolved(r) == req[r].result # NoResult
CallFailed(r) == Resolved(r) /\ req[r].result.status # 200
Answered(r) == req[r].http # NoHttp

----------------------------------------------------------------------------
(* C1 *)

\* C1: when the external call errors, times out or returns a non-200 status,
\* the submission's persisted status becomes failed, no artifact is stored
\* for it and it is never recorded as completed.
C1_FailureIsRecordedFailed ==
    \A r \in Requests :
        CallFailed(r) =>
            /\ Status(req[r].session_id) # "completed"
            /\ DocxRows(req[r].session_id) = {}
            /\ (req[r].pc = "done" => Status(req[r].session_id) = "failed")

----------------------------------------------------------------------------
(* C2 *)

Submitted(session_id) == SessionFiles(session_id) # {}

----------------------------------------------------------------------------
(* C3 *)

InputsStored(r) ==
    /\ HasFile(req[r].csv_file_id) /\ HasFile(req[r].txt_file_id)
    /\ files[req[r].csv_file_id] =
          FileRow(secure_filename(req[r].csv.filename), req[r].csv.content,
                  "csv", req[r].session_id)
    /\ files[req[r].txt_file_id] =
          FileRow(secure_filename(req[r].txt.filename), req[r].txt.content,
                  "txt", req[r].session_id)

----------------------------------------------------------------------------
(* C4 *)

----------------------------------------------------------------------------
(* C5 *)

WellFormed(upload, extension) ==
    /\ upload.present
    /\ upload.filename # <<>>
    /\ upload.content # <<>>
    /\ allowed_file(upload.filename, {extension})

\* C5: an upload in which either file is missing, has an empty filename, is
\* empty or lacks the expected extension is rejected before anything is
\* persisted: every upload that got past validation is well-formed.
C5_InvalidUploadRejected ==
    \A r \in Requests :
        Accepted(r) =>
            WellFormed(req[r].csv, Str_csv) /\ WellFormed(req[r].txt, Str_txt)

----------------------------------------------------------------------------
(* C6 *)

ServedFrom(r, file_id, response) ==
    \/ /\ file_id = req[r].csv_file_id
       /\ response.body = req[r].csv.content
       /\ response.filename = secure_filename(req[r].csv.filename)
       /\ response.mimetype = "text/csv"
    \/ /\ file_id = req[r].txt_file_id
       /\ response.body = req[r].txt.content
       /\ response.filename = secure_filename(req[r].txt.filename)
       /\ response.mimetype = "text/plain"
    \/ /\ file_id = req[r].response_file_id
       /\ response.body = IF CallFailed(r)
                          THEN simulated_content(req[r].csv.filename,
                                                 req[r].txt.filename)
                          ELSE req[r].result.content
       /\ response.filename = req[r].response_filename
       /\ response.mimetype = DocxMime

----------------------------------------------------------------------------
(* C7 *)

----------------------------------------------------------------------------
(* C8 *)

\* C8: submitting identical inputs twice creates two submissions with
\* distinct identifiers, each with its own stored input rows and its own
\* single external call; no submission's external call is made twice.
C8_IndependentSubmissions ==
    /\ \A s \in UUIDs : calls[s] <= 1
    /\ \A r \in Requests :
          Accepted(r) =>
              /\ \A q \in Requests \ {r} : req[q].session_id # req[r].session_id
              /\ calls[req[r].session_id] = IF Resolved(r) THEN 1 ELSE 0
              /\ Resolved(r) =>
                    /\ InputsStored(r)
                    /\ {i \in SessionFiles(req[r].session_id) :
                            files[i].file_type # "docx"}
                          = {req[r].csv_file_id, req[r].txt_file_id}
                    /\ req[r].csv_file_id # req[r].txt_file_id

\* the same two files submitted twice, both submissions dispatched
C8_Witness ==
    \E r, q \in Requests :
        /\ r # q
        /\ Accepted(r) /\ Accepted(q)
        /\ req[r].csv = req[q].csv /\ req[r].txt = req[q].txt
        /\ req[r].pc = "done" /\ req[q].pc = "done"
        /\ calls[req[r].session_id] = 1 /\ calls[req[q].session_id] = 1

----------------------------------------------------------------------------
(* C9 *)

Blank(text) == text = <<>> \/ Strip(text) = <<>>

StyledFields == bold_fields \cup bold_underlined_fields

\* C9 as stated: for every bold or bold+underline field, an empty or
\* whitespace-only raw value is styled to a run with zero-length text and
\* the declared flags set.
C9_BlankRunKeepsFlags ==
    context.prepared =>
        \A f \in StyledFields :
            Blank(data[f]) =>
                /\ f \in DOMAIN context.value
                /\ context.value[f].rich
                /\ \E i \in 1..Len(context.value[f].runs) :
                      LET run == context.value[f].runs[i]
                      IN  /\ run.text = <<>>
                          /\ run.bold
                          /\ f \in bold_underlined_fields => run.underline

\* the text a RichText carries: its runs' texts, concatenated
RECURSIVE RunsText(_)
RunsText(runs) ==
    IF runs = <<>> THEN <<>> ELSE Head(runs).text \o RunsText(Tail(runs))

\* C9 (amended): for every bold or bold+underline field, an empty or
\* whitespace-only raw value is styled to an empty rich-text value: its text
\* is zero-length and it carries no bold or underline flag; the key is not
\* omitted and no error is raised.
C9_BlankIsEmptyRichText ==
    context.prepared =>
        \A f \in StyledFields :
            Blank(data[f]) =>
                /\ f \in DOMAIN context.value
                /\ context.value[f].rich
                /\ RunsText(context.value[f].runs) = <<>>
                /\ \A i \in 1..Len(context.value[f].runs) :
                      /\ ~context.value[f].runs[i].bold
                      /\ ~context.value[f].runs[i].underline

\* a whitespace-only bold field and a whitespace-only bold+underline field
C9_Witness ==
    /\ context.prepared
    /\ data["defendant"] = <<" ", " ">>
    /\ data["date"] = <<" ">>
    /\ context.value["defendant"].rich
    /\ context.value["date"].rich

----------------------------------------------------------------------------
(* C10 *)

\* C10: the output of prepare_context_with_styling has exactly the key set
\* of the input record, and every field outside the bold and bold+underline
\* tables maps to its plain-text input value unchanged.
C10_KeysPreservedPlainUnchanged ==
    context.prepared =>
        /\ DOMAIN context.value = DOMAIN data
        /\ DOMAIN context.value = FieldSet
        /\ \A f \in FieldSet \ StyledFields :
              /\ ~context.value[f].rich
              /\ context.value[f].text = data[f]

\* a plain field with surrounding blanks and the uncategorised field
C10_Witness ==
    /\ context.prepared
    /\ data["clauses"] = <<" ", "a">>
    /\ data["delete_a_or_b"] = <<" ">>
    /\ context.value["clauses"].text = <<" ", "a">>
    /\ context.value["delete_a_or_b"].text = <<" ">>

----------------------------------------------------------------------------
(* C11 *)

\* C11: a render request that leaves a template placeholder unresolved gets
\* a 400-class substitution error, a render request made while the template
\* is absent gets a 500-class configuration error, the two are never
\* confused, and in both cases no document is returned.
C11_SubstitutionIs400MissingIs500 ==
    letter.done =>
        /\ ~letter.template.exists =>
              (letter.response.code = 500 /\ ~letter.response.document)
        /\ (letter.template.exists /\ letter.template.undefined # {}) =>
              /\ letter.response.code = 400
              /\ letter.response.kind = "template_rendering_error"
              /\ ~letter.response.document

----------------------------------------------------------------------------
(* C12 *)

\* C12: on every path through upload_files, store operations that raise
\* after the external call returned included, one upload writes at most one
\* response (docx) row and at most one chat_history row for its session,
\* and every response file a chat_history row names is in the files table
\* under the same session.
C12_OneResponseRowOneHistoryRow ==
    /\ \A s \in UUIDs :
          /\ Cardinality(DocxRows(s)) <= 1
          /\ Cardinality(ChatRows(s)) <= 1
    /\ \A i \in 1..Len(chat_history) :
          chat_history[i].response_file_info.kind = "file" =>
              /\ HasFile(chat_history[i].response_file_info.id)
              /\ files[chat_history[i].response_file_info.id].chat_session_id
                    = chat_history[i].session_id
              /\ files[chat_history[i].response_file_info.id].file_type = "docx"

====
